---- MODULE Spec2Model ----
(***************************************************************************)
(* Model of proj_1/download.py (class DataDownloader): the archive-name    *)
(* selector, the per-field converter of the CSV parser, and the region     *)
(* cache (memory map, cache files in the data folder, cold parse).         *)
(*                                                                         *)
(* Python strings are sequences of one-character strings; they are        *)
(* compared by code point, as Python compares str.                         *)
(*                                                                         *)
(* Three specifications share the variables: Spec is the catalog (get_list,*)
(* parse_region_data, download_data, a restart of the process, an external *)
(* deletion of a cache file), SpecSel is the generator                    *)
(* __get_latest_zip_urls stepped link by link, SpecConv is one raw field   *)
(* through converter(idx) and the cast of its column.                      *)
(*                                                                         *)
(* Outside the model: failures of the transport and of the file system,    *)
(* and CSV rows that are malformed in other ways than the fields of        *)
(* RawPool. The table keeps one record per CSV row: where its cells come   *)
(* from, and the region marker of its 65th column.                         *)
(***************************************************************************)
EXTENDS Integers, Sequences, FiniteSets, TLC

VARIABLES
    pc,         \* which part of the program the behaviour exercises
    links,      \* selector: the hrefs handed to __get_latest_zip_urls
    pos,        \* selector: number of links already consumed by the loop
    last_match, \* selector: the local last_match (None or a match object)
    emitted,    \* selector: the names yielded so far
    idx,        \* converter: the column index closed over by converter(idx)
    raw,        \* converter: the raw field handed to wrap(data)
    conv,       \* converter: outcome of wrap + astype for that field
    exists,     \* cache: os.path.exists(self.__folder)
    files,      \* cache: names of the archives in the folder
    disk,       \* cache: region code -> content of its cache file, if any
    mem_data,   \* cache: self.__mem_data
    calls,      \* cache: the __get_region_data calls of the last request
    ret,        \* cache: outcome of the last request
    op,         \* cache: the last operation and its arguments
    recent,     \* cache: the run of requests get_list([A]), get_list([B]),
                \*        get_list([A, B]) the instance has just served
    handles     \* cache: the kinds of file handle the last operation opened
                \*        and has not closed by its return

vars == <<pc, links, pos, last_match, emitted, idx, raw, conv,
          exists, files, disk, mem_data, calls, ret, op, recent, handles>>

selVars   == <<links, pos, last_match, emitted>>
convVars  == <<idx, raw, conv>>
cacheVars == <<exists, files, disk, mem_data, calls, ret, op, recent,
               handles>>

None == [kind |-> "None"]

(***************************************************************************)
(* Strings                                                                 *)
(***************************************************************************)
Digits == {"0", "1", "2", "3", "4", "5", "6", "7", "8", "9"}

\* code points of the characters the model uses
Ord ==
    [c \in {"\"", ",", "-", ".", "/", "?", "X", "_"} \cup Digits
           \cup {"a", "d", "g", "i", "k", "l", "o", "p", "r", "s", "t", "z"} |->
        CASE c = "\"" -> 34  [] c = "," -> 44  [] c = "-" -> 45
          [] c = "."  -> 46  [] c = "/" -> 47
          [] c = "0"  -> 48  [] c = "1" -> 49  [] c = "2" -> 50
          [] c = "3"  -> 51  [] c = "4" -> 52  [] c = "5" -> 53
          [] c = "6"  -> 54  [] c = "7" -> 55  [] c = "8" -> 56
          [] c = "9"  -> 57  [] c = "?" -> 63  [] c = "X" -> 88
          [] c = "_"  -> 95  [] c = "a" -> 97  [] c = "d" -> 100
          [] c = "g"  -> 103 [] c = "i" -> 105 [] c = "k" -> 107
          [] c = "l"  -> 108 [] c = "o" -> 111 [] c = "p" -> 112
          [] c = "r"  -> 114 [] c = "s" -> 115 [] c = "t" -> 116
          [] c = "z"  -> 122]

\* Python's a < b on str
StrLess(a, b) ==
    \E k \in 1..(Len(a) + 1) :
        /\ \A j \in 1..(k - 1) : j <= Len(b) /\ a[j] = b[j]
        /\ k <= Len(b)
        /\ (k <= Len(a) => Ord[a[k]] < Ord[b[k]])

\* s has the literal lit at position p
HasAt(s, p, lit) ==
    /\ p >= 1
    /\ p + Len(lit) - 1 <= Len(s)
    /\ \A j \in 1..Len(lit) : s[p + j - 1] = lit[j]

Marker == <<"d", "a", "t", "a", "g", "i", "s">>
DotZip == <<".", "z", "i", "p">>
RokTag == <<"-", "r", "o", "k", "-">>

(***************************************************************************)
(* re_zip = ^.*datagis.*([0-1]\d-|-rok-)?(\d{4})\.zip                      *)
(***************************************************************************)
\* length of what group 1 can match at position p: 3 for [0-1]\d-,
\* 5 for -rok-, and 0 for the skipped optional group
TagLens(s, p) ==
    {0}
    \cup (IF p + 2 <= Len(s) /\ s[p] \in {"0", "1"} /\ s[p + 1] \in Digits
             /\ s[p + 2] = "-" THEN {3} ELSE {})
    \cup (IF HasAt(s, p, RokTag) THEN {5} ELSE {})

\* (\d{4})\.zip at position p
YearZipAt(s, p) ==
    /\ p >= 1
    /\ p + 7 <= Len(s)
    /\ \A j \in 0..3 : s[p + j] \in Digits
    /\ HasAt(s, p + 4, DotZip)

\* every way the pattern matches a prefix of s: <<i, p, t>> with the marker
\* at i, the second .* ending before p, and a group 1 of length t at p
ReZipPaths(s) ==
    {path \in (1..Len(s)) \X (1..Len(s)) \X {0, 3, 5} :
        /\ HasAt(s, path[1], Marker)
        /\ path[2] >= path[1] + Len(Marker)
        /\ path[3] \in TagLens(s, path[2])
        /\ YearZipAt(s, path[2] + path[3])}

\* the path the backtracking matcher finds first: both .* are greedy (longest
\* first), and the optional group is tried before it is skipped
ReZipFirst(s) ==
    CHOOSE path \in ReZipPaths(s) :
        \A q \in ReZipPaths(s) :
            \/ q[1] < path[1]
            \/ q[1] = path[1] /\ q[2] < path[2]
            \/ q[1] = path[1] /\ q[2] = path[2] /\ q[3] <= path[3]

\* the match object with the whole string taken for group 0
ReZipSearchWholeString(s) ==
    IF ReZipPaths(s) = {} THEN None
    ELSE LET path == ReZipFirst(s)
             p    == path[2]
             t    == path[3]
         IN  [kind |-> "match",
              g0   |-> s,
              g1   |-> IF t = 0 THEN <<>> ELSE SubSeq(s, p, p + t - 1),
              g1set |-> t # 0,
              g2   |-> SubSeq(s, p + t, p + t + 3)]

\* re_zip.search(s) (and re_zip.match(s): the pattern is anchored by ^):
\* None, or the match object with its groups 0, 1 and 2
ReZipSearch(s) ==
    IF ReZipPaths(s) = {} THEN None
    ELSE LET path == ReZipFirst(s)
             p    == path[2]
             t    == path[3]
         IN  [kind |-> "match",
              g0   |-> SubSeq(s, 1, p + t + 7),
              g1   |-> IF t = 0 THEN <<>> ELSE SubSeq(s, p, p + t - 1),
              g1set |-> t # 0,
              g2   |-> SubSeq(s, p + t, p + t + 3)]

(***************************************************************************)
(* __get_latest_zip_urls                                                   *)
(***************************************************************************)
\* one iteration of "for link in links": the new last_match and what the
\* iteration yields
SelBody(lm, link) ==
    LET match == ReZipSearch(link)
    IN  IF match = None THEN [last |-> lm, out |-> <<>>]
        ELSE IF lm = None THEN [last |-> match, out |-> <<>>]
        ELSE [last |-> match,
              out  |->
                IF StrLess(lm.g2, match.g2)
                THEN IF lm.g1set /\ match.g1set /\ StrLess(match.g1, lm.g1)
                     THEN <<lm.g0>>
                     ELSE IF StrLess(match.g0, lm.g0) THEN <<lm.g0>>
                     ELSE <<>>
                ELSE <<>>]

\* a generator that ends without yielding the candidate it holds
SelTailNothing(lm) == <<>>

\* the statement after the loop: "if last_match: yield last_match.group(0)"
SelTail(lm) == IF lm = None THEN <<>> ELSE <<lm.g0>>

RECURSIVE SelLoop(_, _, _)
SelLoop(ls, lm, out) ==
    IF ls = <<>> THEN out \o SelTail(lm)
    ELSE LET b == SelBody(lm, Head(ls))
         IN  SelLoop(Tail(ls), b.last, out \o b.out)

\* list(self.__get_latest_zip_urls(links))
GetLatestZipUrls(ls) == SelLoop(ls, None, <<>>)

\* hrefs the selector is run on
Y2020 == <<"2", "0", "2", "0">>
Y2021 == <<"2", "0", "2", "1">>
Zip2020     == Marker \o Y2020 \o DotZip
Zip2021     == Marker \o Y2021 \o DotZip
ZipRok2020  == Marker \o RokTag \o Y2020 \o DotZip
ZipRok2021  == Marker \o RokTag \o Y2021 \o DotZip
ZipJan2020  == Marker \o <<"0", "1", "-">> \o Y2020 \o DotZip
ZipTail2021 == Zip2021 \o <<"?", "a">>
NoMarker    == <<"d", "a", "t", "a">> \o Y2021 \o DotZip
NoYear      == Marker \o DotZip

LinkPool == {Zip2020, Zip2021, ZipRok2020, ZipRok2021, ZipJan2020,
             ZipTail2021, NoMarker, NoYear}

MaxLinks == 3

RECURSIVE SeqsUpTo(_, _)
SeqsUpTo(S, n) ==
    IF n = 0 THEN {<<>>}
    ELSE LET shorter == SeqsUpTo(S, n - 1)
         IN  shorter \cup {Append(q, x) : q \in shorter, x \in S}

(***************************************************************************)
(* __parse_zip_file: converter(idx) and the cast of the column             *)
(***************************************************************************)
NumCols == 64

types ==
    <<"U12",  "int8", "U3",   "U10",  "int8", "U5",
      "int8", "int8", "int8", "int8", "int8", "int8",
      "int16", "int8", "int8", "int8", "int16", "int8",
      "int8", "int8", "int8", "int8", "int8", "int8",
      "int8", "int8", "int8", "int8", "int8", "int8",
      "int8", "int8", "int8", "int8", "int8", "int8",
      "int8", "int8", "int8", "int8", "int8", "int16",
      "int8", "int8", "int8", "U16",  "U16",  "U16", "U16",
      "U16",  "U16",  "U50",  "U25",  "U16",  "U20", "U16",
      "U16",  "U16",  "U20",  "U16",  "U6",   "U6",  "U20", "U20">>

\* self.types[idx] for the 0-based idx of the code
TypeOf(i) == types[i + 1]

IntTypes == {"int8", "int16"}

\* 'U' in self.types[idx]
IsStrType(i) == TypeOf(i) \notin IntTypes

XX == <<"X", "X">>

\* data.replace('"', '').replace(',', '.')
RECURSIVE Clean(_)
Clean(data) ==
    IF data = <<>> THEN <<>>
    ELSE IF Head(data) = "\"" THEN Clean(Tail(data))
    ELSE IF Head(data) = "," THEN <<".">> \o Clean(Tail(data))
    ELSE <<Head(data)>> \o Clean(Tail(data))

\* converter(idx)(data)
Wrap(i, data) ==
    LET d == Clean(data)
    IN  IF TypeOf(i) = "int8" /\ d = XX THEN <<"0">>
        ELSE IF d = <<>> THEN (IF IsStrType(i) THEN <<>> ELSE <<"0">>)
        ELSE d

\* int(s) accepts s
IsIntLiteral(s) ==
    LET body == IF s # <<>> /\ Head(s) = "-" THEN Tail(s) ELSE s
    IN  /\ body # <<>>
        /\ \A j \in 1..Len(body) : body[j] \in Digits

\* data_col.astype(self.types[idx]) raises ValueError on a cell that is not
\* an integer literal; its result is dropped, the table keeps the strings
AstypeRaises(i, cell) == TypeOf(i) \in IntTypes /\ ~IsIntLiteral(cell)

\* one field through converter(idx) and the cast of its column
ParseField(i, data) ==
    LET cell == Wrap(i, data)
    IN  IF AstypeRaises(i, cell)
        THEN [kind |-> "raise", exc |-> "ValueError", cell |-> cell]
        ELSE [kind |-> "ok", exc |-> "", cell |-> cell]

RawPool == {<<>>, XX, <<"\"", "X", "X", "\"">>, <<"\"", "\"">>,
            <<"1", "2">>, <<"\"", "1", "2", "\"">>, <<"1", ",", "5">>,
            <<"-", "1">>}

(***************************************************************************)
(* The data folder, the site and the archives                              *)
(***************************************************************************)
region_file ==
    [PHA |-> "00.csv", STC |-> "01.csv", JHC |-> "02.csv", PLK |-> "03.csv",
     ULK |-> "04.csv", HHK |-> "05.csv", JHM |-> "06.csv", MSK |-> "07.csv",
     OLK |-> "14.csv", ZLK |-> "15.csv", VYS |-> "16.csv", PAK |-> "17.csv",
     LBK |-> "18.csv", KVK |-> "19.csv"]

\* the regions get_list falls back to when it is given none
DefaultRegions ==
    <<"PHA", "STC", "JHC", "PLK", "ULK", "HHK", "JHM", "MSK", "OLK", "ZLK",
      "VYS", "PAK", "LBK", "KVK">>

\* a code outside region_file; it is also the literal key of line 181
UnknownCodes == {"region"}

\* the codes the requests of the model name
RequestCodes == {"PHA", "STC"} \cup UnknownCodes

MaxRegions == 2
RowsPerCsv == 2

\* self.__cache.format(region), with cache_filename = "data_{}.pkl.gz"; the
\* region code is kept as one element of the name
CacheFileName(region) ==
    <<"d", "a", "t", "a", "_", region, ".", "p", "k", "l", ".", "g", "z">>

\* the archives that can be in the folder, and the hrefs of the site's page
ArchivePool == {Zip2020, Zip2021}
SiteLinks   == <<NoMarker, Zip2020, Zip2021>>

\* zip_file.namelist(): the 2020 archive has no CSV entry for STC
Namelist(zip) ==
    LET all == {region_file[r] : r \in DOMAIN region_file}
    IN  IF zip = Zip2020 THEN all \ {"01.csv"} ELSE all

\* the content of archive zip, as the cells of its rows carry it
ArchiveData(zip) == IF zip = Zip2020 THEN "2020" ELSE "2021"

Range(f) == {f[x] : x \in DOMAIN f}

RECURSIVE SetToSeq(_)
SetToSeq(S) ==
    IF S = {} THEN <<>>
    ELSE LET x == CHOOSE y \in S : TRUE
         IN  <<x>> \o SetToSeq(S \ {x})

RECURSIVE Perms(_)
Perms(S) ==
    IF S = {} THEN {<<>>}
    ELSE UNION {{<<x>> \o q : q \in Perms(S \ {x})} : x \in S}

\* the orders os.listdir can return the folder in: the relative order of the
\* archives, and whether a cache file (when there is one) is listed first
Listings == [order : Perms(ArchivePool), cacheFirst : BOOLEAN]

\* os.listdir(self.__folder)
ListDir(st, lst) ==
    LET inFolder(n) == n \in st.files
        zips   == SelectSeq(lst.order, inFolder)
        caches == SetToSeq({CacheFileName(r) : r \in DOMAIN st.disk})
    IN  IF lst.cacheFirst THEN caches \o zips ELSE zips \o caches

\* self.re_zip.search(fname) / self.re_zip.match(fname) is not None
AllFileNames ==
    ArchivePool
    \cup {CacheFileName(r) : r \in DOMAIN region_file \cup UnknownCodes}
ZipNames == {n \in AllFileNames : ReZipSearch(n) # None}
IsZipName(n) == n \in ZipNames

\* folder_contains_zip(): the loop returns on its first iteration; it falls
\* off the end (None, falsy) when the folder is empty
FolderContainsZip(listing) ==
    IF listing = <<>> THEN FALSE ELSE IsZipName(listing[1])

\* os.path.split(zip_url)[-1]
Basename(path) ==
    LET slashes == {j \in 1..Len(path) : path[j] = "/"}
    IN  IF slashes = {} THEN path
        ELSE LET last == CHOOSE j \in slashes : \A k \in slashes : k <= j
             IN  SubSeq(path, last + 1, Len(path))

\* the file names download_data writes: the basename of every name the
\* selector yields for the links of the site's page
SiteZipNames == {Basename(u) : u \in Range(GetLatestZipUrls(SiteLinks))}

\* what download_data leaves in the folder
DownloadData(st) ==
    [st EXCEPT !.exists = TRUE, !.files = @ \cup SiteZipNames]

(***************************************************************************)
(* Values and outcomes                                                     *)
(***************************************************************************)
\* the tuple (self.header, table); the header is the fixed list of 65 names
Pair(t) == [kind |-> "pair", table |-> t]

Ok(v, w)    == [kind |-> "ok", exc |-> "", value |-> v, warnings |-> w]
Raise(e, w) == [kind |-> "raise", exc |-> e, value |-> None, warnings |-> w]

\* __parse_zip_file(zip_fname, region): tuple() when the region's CSV is not
\* in the archive, else the rows of the CSV with the region appended
ParseZipFile(zip, region) ==
    IF region_file[region] \notin Namelist(zip)
    THEN [empty |-> TRUE, rows |-> <<>>]
    ELSE [empty |-> FALSE,
          rows  |-> [k \in 1..RowsPerCsv |->
                        [data   |-> <<ArchiveData(zip), region_file[region], k>>,
                         region |-> region]]]

RECURSIVE Flatten(_)
Flatten(tables) ==
    IF tables = <<>> THEN <<>> ELSE Head(tables) \o Flatten(Tail(tables))

\* numpy.concatenate(parts, axis=1) raises ValueError on an empty list, on
\* arrays of different dimensions, and (AxisError) on one-dimensional arrays;
\* tuple() becomes a one-dimensional array of length 0
ConcatenateRaises(parts) ==
    \/ parts = <<>>
    \/ \E j \in 1..Len(parts) : parts[j].empty

Concatenate(parts) == Flatten([j \in 1..Len(parts) |-> parts[j].rows])

\* the list comprehension of parse_region_data and its concatenation, given
\* the results of __parse_zip_file; every missing CSV has logged one warning
Combine(parts) ==
    IF ConcatenateRaises(parts)
    THEN Raise("ValueError",
               Cardinality({j \in 1..Len(parts) : parts[j].empty}))
    ELSE Ok(Pair(Concatenate(parts)),
            Cardinality({j \in 1..Len(parts) : parts[j].empty}))

ParseArchives(zips, region) ==
    Combine([j \in 1..Len(zips) |-> ParseZipFile(zips[j], region)])

\* "if not (os.path.exists(self.__folder) and folder_contains_zip())"
NeedsFetch(st, lst) == ~(st.exists /\ FolderContainsZip(ListDir(st, lst)))

\* the list comprehension of parse_region_data over the archives zips:
\* every archive is opened by "with ZipFile(...)", and the CSV entry of every
\* archive that has one is opened by zip_file.open(csv_name, 'r')
ParseListed(st1, fetch, region, zips) ==
    [st       |-> st1,
     fetched  |-> fetch,
     out      |-> ParseArchives(zips, region),
     archives |-> Len(zips),
     streams  |-> Cardinality({j \in 1..Len(zips) :
                                  region_file[region] \in Namelist(zips[j])})]

\* parse_region_data(region) after the check of the folder
ParseFetched(st1, fetch, region, lst) ==
    IF region \notin DOMAIN region_file
    THEN [st |-> st1, fetched |-> fetch, out |-> Ok(None, 1),
          archives |-> 0, streams |-> 0]
    ELSE ParseListed(st1, fetch, region,
                     SelectSeq(ListDir(st1, lst), IsZipName))

\* parse_region_data(region)
ParseRegionData(st, region, lst) ==
    IF NeedsFetch(st, lst)
    THEN ParseFetched(DownloadData(st), TRUE, region, lst)
    ELSE ParseFetched(st, FALSE, region, lst)

(***************************************************************************)
(* __get_region_data and get_list                                          *)
(***************************************************************************)
\* "region in self.__mem_data"
MemTier(st, region) == region \in DOMAIN st.mem

\* "return self.__mem_data['region']": the key is the literal 'region'
MemHit(st, region) ==
    IF "region" \in DOMAIN st.mem THEN Ok(st.mem["region"], 0)
    ELSE Raise("KeyError", 0)

\* the existence test of a path that is never there
DiskTierWrongPath(st, region) == FALSE

\* os.path.exists(cache_path)
DiskTier(st, region) == region \in DOMAIN st.disk

\* a disk hit that also stores the loaded value in the memory map
DiskHitPopulatesMemory(st, region) ==
    [st EXCEPT !.mem = (region :> st.disk[region]) @@ @]

\* "return load(gzip.open(cache_path, 'rb'))": the state it leaves
DiskHit(st, region) == st

\* a cold miss that writes the cache file only
StoreParsedDiskOnly(st, region, data) ==
    [st EXCEPT !.disk = (region :> data) @@ @]

\* dump(data, cache) and self.__mem_data[region] = data
StoreParsed(st, region, data) ==
    [st EXCEPT !.disk = (region :> data) @@ @,
               !.mem  = (region :> data) @@ @]

\* the kinds of handle the code opens: the archive (with ZipFile, line 143),
\* the CSV entry inside it (zip_file.open, line 153), the cache file for
\* reading (gzip.open, line 185) and for writing (with gzip.open, line 188)
HandleKinds == {"archive", "csv", "cache_read", "cache_write"}

\* the kinds opened in a with statement, which closes them on every exit
Scoped == {"archive", "cache_write"}

\* the handles a parse_region_data call has opened
ParseHandles(p) ==
    (IF p.archives > 0 THEN {"archive"} ELSE {})
    \cup (IF p.streams > 0 THEN {"csv"} ELSE {})

\* the handles still open when the operation that acquired them returns or
\* raises: a handle opened outside a with statement is closed only when its
\* object is collected, which may or may not have happened by then
LeftOpen(acquired, collected) ==
    IF collected THEN {} ELSE acquired \ Scoped

\* the cold-miss path of __get_region_data, given what parse_region_data did
ColdMiss(region, p) ==
    IF p.out.kind = "raise"
    THEN [st |-> p.st, tier |-> "cold", parsed |-> 1, wrote |-> FALSE,
          fetched |-> p.fetched, out |-> p.out,
          acquired |-> ParseHandles(p)]
    ELSE [st |-> StoreParsed(p.st, region, p.out.value),
          tier |-> "cold", parsed |-> 1, wrote |-> TRUE,
          fetched |-> p.fetched, out |-> p.out,
          acquired |-> ParseHandles(p) \cup {"cache_write"}]

\* the three tiers of __get_region_data, in the order of the code
Tiers(st, region, lst) ==
    IF MemTier(st, region)
    THEN [st |-> st, tier |-> "mem", parsed |-> 0, wrote |-> FALSE,
          fetched |-> FALSE, out |-> MemHit(st, region), acquired |-> {}]
    ELSE IF DiskTier(st, region)
    THEN [st |-> DiskHit(st, region), tier |-> "disk", parsed |-> 0,
          wrote |-> FALSE, fetched |-> FALSE, out |-> Ok(st.disk[region], 0),
          acquired |-> {"cache_read"}]
    ELSE ColdMiss(region, ParseRegionData(st, region, lst))

\* f[region], or None when region is not a key of f
At(f, region) == IF region \in DOMAIN f THEN f[region] ELSE None

\* the record of one __get_region_data call: what it found, what it did and
\* what it left
CallRecord(st, region, res) ==
    [region   |-> region,
     tier     |-> res.tier,
     parsed   |-> res.parsed,
     wrote    |-> res.wrote,
     fetched  |-> res.fetched,
     acquired |-> res.acquired,
     existed  |-> st.exists,
     archived |-> st.files,
     out      |-> res.out,
     memHad   |-> region \in DOMAIN st.mem,
     memVal   |-> At(st.mem, region),
     diskHad  |-> region \in DOMAIN st.disk,
     diskVal  |-> At(st.disk, region),
     memHas   |-> region \in DOMAIN res.st.mem,
     memNow   |-> At(res.st.mem, region),
     diskHas  |-> region \in DOMAIN res.st.disk,
     diskNow  |-> At(res.st.disk, region),
     memSame  |-> res.st.mem = st.mem,
     diskSame |-> res.st.disk = st.disk]

Recorded(st, region, res) ==
    [st |-> res.st, out |-> res.out, call |-> CallRecord(st, region, res)]

\* __get_region_data(region): the state it leaves, its outcome, and a record
\* of the call
GetRegionData(st, region, lst) == Recorded(st, region, Tiers(st, region, lst))

RECURSIVE GetListLoop(_, _, _, _, _, _)

\* "__get_region_data(region)[1]" for the first region of regs, given the
\* outcome g of the call, and then the rest of the comprehension
GetListStep(regs, g, tables, cs, w, lst) ==
    IF g.out.kind = "raise"
    THEN [st |-> g.st, calls |-> Append(cs, g.call),
          out |-> Raise(g.out.exc, w + g.out.warnings)]
    ELSE IF g.out.value = None
    THEN [st |-> g.st, calls |-> Append(cs, g.call),
          out |-> Raise("TypeError", w + g.out.warnings)]
    ELSE GetListLoop(Tail(regs), g.st, Append(tables, g.out.value.table),
                     Append(cs, g.call), w + g.out.warnings, lst)

\* the list comprehension of get_list: __get_region_data(region)[1] for each
\* region in turn, then the concatenation of the tables
GetListLoop(regs, st, tables, cs, w, lst) ==
    IF regs = <<>>
    THEN [st |-> st, calls |-> cs, out |-> Ok(Pair(Flatten(tables)), w)]
    ELSE GetListStep(regs, GetRegionData(st, Head(regs), lst),
                     tables, cs, w, lst)

\* get_list(regions)
GetListResult(st, regions, lst) ==
    GetListLoop(IF regions = <<>> THEN DefaultRegions ELSE regions,
                st, <<>>, <<>>, 0, lst)

(***************************************************************************)
(* The catalog as a state machine                                          *)
(***************************************************************************)
State == [exists |-> exists, files |-> files, disk |-> disk, mem |-> mem_data]

Empty == [r \in {} |-> None]
Idle  == [kind |-> "none"]

SelIdle ==
    /\ links = <<>> /\ pos = 0 /\ last_match = None /\ emitted = <<>>
ConvIdle ==
    /\ idx = 0 /\ raw = <<>> /\ conv = Idle
CacheIdle ==
    /\ exists = FALSE /\ files = {} /\ disk = Empty /\ mem_data = Empty
    /\ calls = <<>> /\ ret = Idle /\ op = [name |-> "none"] /\ recent = <<>>
    /\ handles = {}

\* a new DataDownloader over a folder that may hold archives already
Init ==
    /\ pc = "cache"
    /\ SelIdle /\ ConvIdle
    /\ exists \in BOOLEAN
    /\ files \in SUBSET ArchivePool
    /\ ~exists => files = {}
    /\ disk = Empty
    /\ mem_data = Empty
    /\ calls = <<>>
    /\ ret = Idle
    /\ op = [name |-> "init"]
    /\ recent = <<>>
    /\ handles = {}

\* the requests get_list([A]), get_list([B]), get_list([A, B]) for two
\* distinct regions of region_file, served one after the other by one
\* instance: the run so far, with the outcome of each request
NextRecent(rec, regions, out) ==
    LET e      == [regions |-> regions, out |-> out]
        single == Len(regions) = 1 /\ regions[1] \in DOMAIN region_file
    IN  IF Len(rec) = 1 /\ single /\ regions[1] # rec[1].regions[1]
        THEN Append(rec, e)
        ELSE IF Len(rec) = 2
                /\ regions = <<rec[1].regions[1], rec[2].regions[1]>>
        THEN Append(rec, e)
        ELSE IF single THEN <<e>>
        ELSE <<>>

Install(st) ==
    /\ exists' = st.exists
    /\ files' = st.files
    /\ disk' = st.disk
    /\ mem_data' = st.mem

\* the handles the __get_region_data calls cs have opened
AcquiredBy(cs) == UNION {cs[k].acquired : k \in 1..Len(cs)}

\* the request has returned or raised: r is what it did
GetListDone(regions, r, collected) ==
    /\ Install(r.st)
    /\ calls' = r.calls
    /\ ret' = r.out
    /\ op' = [name |-> "get_list", regions |-> regions]
    /\ recent' = NextRecent(recent, regions, r.out)
    /\ handles' = LeftOpen(AcquiredBy(r.calls), collected)

GetList(regions, lst, collected) ==
    /\ pc = "cache"
    /\ GetListDone(regions, GetListResult(State, regions, lst), collected)
    /\ UNCHANGED <<pc, selVars, convVars>>

ParseRegionDataDone(region, r, collected) ==
    /\ Install(r.st)
    /\ calls' = <<>>
    /\ ret' = r.out
    /\ op' = [name |-> "parse_region_data", region |-> region,
              fetched |-> r.fetched, existed |-> exists, archived |-> files]
    /\ recent' = <<>>
    /\ handles' = LeftOpen(ParseHandles(r), collected)

ParseRegionDataCall(region, lst, collected) ==
    /\ pc = "cache"
    /\ ParseRegionDataDone(region, ParseRegionData(State, region, lst),
                           collected)
    /\ UNCHANGED <<pc, selVars, convVars>>

DownloadDataCall ==
    /\ pc = "cache"
    /\ Install(DownloadData(State))
    /\ calls' = <<>>
    /\ ret' = Ok(None, 0)
    /\ op' = [name |-> "download_data"]
    /\ recent' = <<>>
    /\ handles' = {}
    /\ UNCHANGED <<pc, selVars, convVars>>

\* the process ends and a new one constructs a DataDownloader
Restart ==
    /\ pc = "cache"
    /\ mem_data' = Empty
    /\ calls' = <<>>
    /\ ret' = Idle
    /\ op' = [name |-> "restart"]
    /\ recent' = <<>>
    /\ handles' = {}
    /\ UNCHANGED <<pc, selVars, convVars, exists, files, disk>>

\* an operator deletes the cache file of a region
DeleteArtifact(region) ==
    /\ pc = "cache"
    /\ region \in DOMAIN disk
    /\ disk' = [r \in DOMAIN disk \ {region} |-> disk[r]]
    /\ calls' = <<>>
    /\ ret' = Idle
    /\ op' = [name |-> "delete", region |-> region]
    /\ recent' = <<>>
    /\ handles' = {}
    /\ UNCHANGED <<pc, selVars, convVars, exists, files, mem_data>>

\* the region lists of the requests; the empty list stands for get_list()
RequestLists == SeqsUpTo(RequestCodes, MaxRegions)

Next ==
    \/ \E regions \in RequestLists, lst \in Listings, collected \in BOOLEAN :
           GetList(regions, lst, collected)
    \/ \E region \in RequestCodes, lst \in Listings, collected \in BOOLEAN :
           ParseRegionDataCall(region, lst, collected)
    \/ DownloadDataCall
    \/ Restart
    \/ \E region \in RequestCodes : DeleteArtifact(region)

Spec == Init /\ [][Next]_vars

(***************************************************************************)
(* The selector as a generator                                             *)
(***************************************************************************)
SelInit ==
    /\ pc = "scan"
    /\ links \in SeqsUpTo(LinkPool, MaxLinks)
    /\ pos = 0
    /\ last_match = None
    /\ emitted = <<>>
    /\ ConvIdle /\ CacheIdle

\* one iteration of the for loop
SelNext ==
    /\ pc = "scan"
    /\ pos < Len(links)
    /\ LET b == SelBody(last_match, links[pos + 1])
       IN  /\ last_match' = b.last
           /\ emitted' = emitted \o b.out
    /\ pos' = pos + 1
    /\ UNCHANGED <<pc, links, convVars, cacheVars>>

\* the loop is exhausted: the statement after it, and StopIteration
SelFinish ==
    /\ pc = "scan"
    /\ pos = Len(links)
    /\ emitted' = emitted \o SelTail(last_match)
    /\ pc' = "done"
    /\ UNCHANGED <<links, pos, last_match, convVars, cacheVars>>

SpecSel == SelInit /\ [][SelNext \/ SelFinish]_vars

(***************************************************************************)
(* One field through the parser                                            *)
(***************************************************************************)
ConvInit ==
    /\ pc = "raw"
    /\ idx \in 0..(NumCols - 1)
    /\ raw \in RawPool
    /\ conv = Idle
    /\ SelIdle /\ CacheIdle

Convert ==
    /\ pc = "raw"
    /\ conv' = ParseField(idx, raw)
    /\ pc' = "parsed"
    /\ UNCHANGED <<idx, raw, selVars, cacheVars>>

SpecConv == ConvInit /\ [][Convert]_vars

(***************************************************************************)
(* Properties                                                              *)
(***************************************************************************)
Call(k) == calls[k]
CallIds == 1..Len(calls)

\* C1: a __get_region_data(r) call made while r is a key of the memory map
\* returns the value stored under r, reading neither the cache file nor the
\* archives.
C1_MemoryTierReturnsStored ==
    \A k \in CallIds :
        Call(k).memHad =>
            /\ Call(k).out.kind = "ok"
            /\ Call(k).out.value = Call(k).memVal
            /\ Call(k).tier = "mem"
            /\ Call(k).parsed = 0

\* C2 as stated: a call with r absent from the memory map and its cache file
\* present returns the loaded value and leaves r in the memory map with it.
C2_DiskTierPopulatesMemory ==
    \A k \in CallIds :
        (~Call(k).memHad /\ Call(k).diskHad) =>
            /\ Call(k).out.kind = "ok"
            /\ Call(k).out.value = Call(k).diskVal
            /\ Call(k).memHas
            /\ Call(k).memNow = Call(k).diskVal

\* C2 amended: a call with r absent from the memory map and its cache file
\* present returns the loaded value and leaves the memory map and the cache
\* file as they were; r is still not a key of the memory map.
C2_DiskTierLeavesMemory ==
    \A k \in CallIds :
        (~Call(k).memHad /\ Call(k).diskHad) =>
            /\ Call(k).out.kind = "ok"
            /\ Call(k).out.value = Call(k).diskVal
            /\ Call(k).parsed = 0
            /\ ~Call(k).memHas
            /\ Call(k).memSame
            /\ Call(k).diskSame

\* a request served a region from its cache file, and the file held a table
C2_Witness ==
    \E k \in CallIds :
        /\ ~Call(k).memHad /\ Call(k).diskHad
        /\ Call(k).out.kind = "ok"
        /\ Call(k).out.value.kind = "pair"
        /\ Call(k).out.value.table # <<>>

\* C3 as stated: a call with r absent from the memory map and from the disk
\* parses once, writes the result to r's cache file, and leaves the memory
\* map unchanged.
C3_ColdMissLeavesMemory ==
    \A k \in CallIds :
        (~Call(k).memHad /\ ~Call(k).diskHad) =>
            /\ Call(k).parsed = 1
            /\ Call(k).diskHas
            /\ Call(k).diskNow = Call(k).out.value
            /\ Call(k).memSame
            /\ ~Call(k).memHas

\* C3 amended: a call with r absent from the memory map and from the disk
\* parses once; when the parse returns, its result is in r's cache file and
\* under r in the memory map; when it raises, neither has changed.
C3_ColdMissStoresBoth ==
    \A k \in CallIds :
        (~Call(k).memHad /\ ~Call(k).diskHad) =>
            /\ Call(k).parsed = 1
            /\ Call(k).out.kind = "ok" =>
                   /\ Call(k).diskHas /\ Call(k).diskNow = Call(k).out.value
                   /\ Call(k).memHas /\ Call(k).memNow = Call(k).out.value
            /\ Call(k).out.kind = "raise" =>
                   /\ Call(k).memSame /\ Call(k).diskSame

\* a cold miss has parsed a table and returned it
C3_Witness ==
    \E k \in CallIds :
        /\ ~Call(k).memHad /\ ~Call(k).diskHad
        /\ Call(k).out.kind = "ok"
        /\ Call(k).out.value.kind = "pair"
        /\ Call(k).out.value.table # <<>>
        /\ Call(k).diskHas

\* C4: a region's cache file is written, and the region parsed, by
\* __get_region_data only in a state where the cache file does not exist.
C4_WriteOnce ==
    \A k \in CallIds :
        (Call(k).wrote \/ Call(k).parsed > 0 \/ ~Call(k).diskSame) =>
            ~Call(k).diskHad

\* one request, made with an empty memory map, wrote the cache file of one
\* region and left the existing cache file of another region alone
C4_Witness ==
    \E j \in CallIds, k \in CallIds :
        /\ Call(j).wrote /\ ~Call(j).diskHad
        /\ Call(k).diskHad /\ ~Call(k).memHad /\ ~Call(k).wrote
        /\ Call(k).diskNow = Call(k).diskVal

\* C5: get_list([A]), get_list([B]) and get_list([A, B]), served in a row by
\* one instance, all return; the merged table has the rows of the two single
\* tables, each with the region marker it had there.
C5_MergeCorrectness ==
    Len(recent) = 3 =>
        /\ \A j \in 1..3 : recent[j].out.kind = "ok"
        /\ LET ta  == recent[1].out.value.table
               tb  == recent[2].out.value.table
               tab == recent[3].out.value.table
           IN  /\ Len(tab) = Len(ta) + Len(tb)
               /\ \A j \in 1..Len(tab) :
                      tab[j].region = (ta \o tb)[j].region

\* C6: a request for a region code outside region_file returns None for that
\* code without raising, and logs one warning.
C6_UnknownRegionAbsent ==
    /\ (op.name = "parse_region_data" /\ op.region \notin DOMAIN region_file) =>
           ret = Ok(None, 1)
    /\ op.name = "get_list" =>
           /\ \A k \in CallIds :
                  Call(k).region \notin DOMAIN region_file =>
                      Call(k).out = Ok(None, 1)
           /\ (\E j \in 1..Len(op.regions) :
                   op.regions[j] \notin DOMAIN region_file) =>
                  ret.kind = "ok"

\* C7: parse_region_data over a folder holding an archive without the
\* region's CSV and an archive with it returns the rows of the archives that
\* have it.
C7_MissingCsvSkipped ==
    (/\ op.name = "parse_region_data"
     /\ op.region \in DOMAIN region_file
     /\ \E z \in files : region_file[op.region] \notin Namelist(z)
     /\ \E z \in files : region_file[op.region] \in Namelist(z)) =>
        /\ \A z \in files :
               region_file[op.region] \notin Namelist(z) =>
                   ParseZipFile(z, op.region).empty
        /\ ret.kind = "ok"
        /\ ret.value.kind = "pair"
        /\ Len(ret.value.table) =
               RowsPerCsv * Cardinality({z \in files :
                                region_file[op.region] \in Namelist(z)})
        /\ \A j \in 1..Len(ret.value.table) :
               \E z \in files :
                   /\ region_file[op.region] \in Namelist(z)
                   /\ ret.value.table[j].data[1] = ArchiveData(z)

\* C8: in every integer column, of 8 or of 16 bits, the raw field XX becomes
\* 0 and the row is parsed without an error.
C8_SentinelNormalized ==
    (pc = "parsed" /\ TypeOf(idx) \in IntTypes /\ Clean(raw) = XX) =>
        /\ conv.kind = "ok"
        /\ conv.cell = <<"0">>

\* s contains the archive marker and ends in four digits and .zip
IsArchiveName(s) ==
    /\ \E i \in 1..Len(s) : HasAt(s, i, Marker)
    /\ Len(s) >= 8
    /\ \A j \in (Len(s) - 7)..(Len(s) - 4) : s[j] \in Digits
    /\ SubSeq(s, Len(s) - 3, Len(s)) = DotZip

\* s starts with a name of the archive pattern
HasArchivePrefix(s) == \E n \in 1..Len(s) : IsArchiveName(SubSeq(s, 1, n))

\* C9: every name the selector yields contains the archive marker and ends
\* in four digits and .zip, and is the start of a link consumed so far; a
\* link that does not match the pattern is not yielded.
C9_EmittedMatchPattern ==
    \A j \in 1..Len(emitted) :
        /\ IsArchiveName(emitted[j])
        /\ \E k \in 1..pos :
               /\ HasArchivePrefix(links[k])
               /\ Len(emitted[j]) <= Len(links[k])
               /\ SubSeq(links[k], 1, Len(emitted[j])) = emitted[j]

\* the generator is exhausted, it has yielded a name, one link did not match
\* the pattern and one matched with text after the .zip
C9_Witness ==
    /\ pc = "done"
    /\ emitted # <<>>
    /\ \E k \in 1..Len(links) : ~HasArchivePrefix(links[k])
    /\ \E k \in 1..Len(links) :
           HasArchivePrefix(links[k]) /\ ~IsArchiveName(links[k])

\* a and b are the same name but for the years 2020 and 2021
YearPair(a, b) ==
    /\ Len(a) = Len(b) /\ Len(a) >= 8
    /\ SubSeq(a, 1, Len(a) - 8) = SubSeq(b, 1, Len(b) - 8)
    /\ SubSeq(a, Len(a) - 7, Len(a)) = Y2020 \o DotZip
    /\ SubSeq(b, Len(b) - 7, Len(b)) = Y2021 \o DotZip

\* C10: when the matching links are a 2020 archive and the same archive of
\* 2021, in either order, the selector yields the 2021 name and nothing else.
C10_LatestYearOnly ==
    LET matching == SelectSeq(links, HasArchivePrefix)
    IN  (/\ pc = "done"
         /\ Len(matching) = 2
         /\ \/ YearPair(matching[1], matching[2])
            \/ YearPair(matching[2], matching[1])) =>
            \/ emitted = <<matching[1]>> /\ YearPair(matching[2], matching[1])
            \/ emitted = <<matching[2]>> /\ YearPair(matching[1], matching[2])

\* the period tag of an archive name: the -rok- or the month and dash right
\* before the year, or the empty string
PeriodTag(n) ==
    IF HasAt(n, Len(n) - 12, RokTag) THEN RokTag
    ELSE IF /\ Len(n) >= 11
            /\ n[Len(n) - 10] \in {"0", "1"}
            /\ n[Len(n) - 9] \in Digits
            /\ n[Len(n) - 8] = "-"
    THEN SubSeq(n, Len(n) - 10, Len(n) - 8)
    ELSE <<>>

\* the year of an archive name
YearOfName(n) == SubSeq(n, Len(n) - 7, Len(n) - 4)

\* C11: when the matching links are two archives of one year, one with a
\* month tag and one with the -rok- tag, the first (the replaced candidate)
\* is yielded exactly when its tag sorts after the tag of the second; the
\* order of the links alone does not decide.
C11_SameYearByTag ==
    LET matching == SelectSeq(links, HasArchivePrefix)
    IN  (/\ pc = "done"
         /\ Len(matching) = 2
         /\ IsArchiveName(matching[1]) /\ IsArchiveName(matching[2])
         /\ YearOfName(matching[1]) = YearOfName(matching[2])
         /\ {PeriodTag(matching[1]), PeriodTag(matching[2])} \in
                {{RokTag, m} : m \in {"0", "1"} \X Digits \X {"-"}}) =>
            ((\E j \in 1..Len(emitted) : emitted[j] = matching[1])
                <=> StrLess(PeriodTag(matching[2]), PeriodTag(matching[1])))

\* C12: every cache file on disk and every value of the memory map is a
\* (header, table) pair.
C12_ArtifactsArePairs ==
    /\ \A r \in DOMAIN disk : disk[r].kind = "pair"
    /\ \A r \in DOMAIN mem_data : mem_data[r].kind = "pair"

\* the folder existed and held a file whose name has the archive pattern
HadArchive(existed, archived) ==
    existed /\ \E n \in archived : HasArchivePrefix(n)

\* C13: parse_region_data calls download_data exactly when the folder is
\* missing or holds no file name of the archive pattern, whatever else the
\* folder holds and in whatever order it is listed.
C13_FetchIffNoArchive ==
    /\ op.name = "parse_region_data" =>
           (op.fetched <=> ~HadArchive(op.existed, op.archived))
    /\ \A k \in CallIds :
           Call(k).parsed = 1 =>
               (Call(k).fetched <=>
                    ~HadArchive(Call(k).existed, Call(k).archived))

\* C14: when an operation has returned or raised, every handle it opened is
\* closed.
C14_HandlesReleased == handles = {}

\* emitted is yielded by links, in their order, each link at most once: f
\* maps every yielded name to a later link than the one before, and the
\* name is the archive name that link starts with
InLinkOrder(f) ==
    /\ \A j \in DOMAIN f : \A k \in DOMAIN f : j < k => f[j] < f[k]
    /\ \A j \in DOMAIN f :
           /\ IsArchiveName(emitted[j])
           /\ Len(emitted[j]) <= Len(links[f[j]])
           /\ SubSeq(links[f[j]], 1, Len(emitted[j])) = emitted[j]
           /\ \A n \in (Len(emitted[j]) + 1)..Len(links[f[j]]) :
                  ~IsArchiveName(SubSeq(links[f[j]], 1, n))

\* C15: the names yielded so far come from distinct consumed links in input
\* order; when the generator is exhausted, the output is empty if no link
\* matches, and otherwise ends with the name of the last matching link.
C15_FinalCandidate ==
    /\ \E f \in [1..Len(emitted) -> 1..pos] : InLinkOrder(f)
    /\ pc = "done" =>
           IF \A k \in 1..Len(links) : ~HasArchivePrefix(links[k])
           THEN emitted = <<>>
           ELSE /\ emitted # <<>>
                /\ \E f \in [1..Len(emitted) -> 1..Len(links)] :
                       /\ InLinkOrder(f)
                       /\ HasArchivePrefix(links[f[Len(emitted)]])
                       /\ \A k \in (f[Len(emitted)] + 1)..Len(links) :
                              ~HasArchivePrefix(links[k])

\* the generator is exhausted after yielding a name inside the loop and the
\* final candidate, with a link that does not match after the last match
C15_Witness ==
    /\ pc = "done"
    /\ Len(emitted) = 2
    /\ Len(links) = 3
    /\ ~HasArchivePrefix(links[3])

====
